---- MODULE Spec2Model ----
(***************************************************************************)
(* A model of compare() of my_python.py: the comparison of two pandas      *)
(* DataFrames x and y into a dictionary of result frames.                  *)
(*                                                                         *)
(* A DataFrame is a sequence of [i |-> index label, r |-> row]; a row is a *)
(* record over the columns id and v.  A call of compare is one behaviour:  *)
(* Init holds the arguments of the call, and each try block of the         *)
(* function is one action, in program order.                               *)
(***************************************************************************)
EXTENDS Integers, Sequences, FiniteSets, TLC, Bags

VARIABLES x, y, xType, yType, names, namesType, dups, same, comment,
          highlight, dict_temp, stdout, pc, error, ran

\* S3FileManagement (s3_file_management.py): the buckets, the instance, the
\* instance rename_folder builds, the requests sent, and the call under way
VARIABLES store, self, other, requests, method, resp, s3pc

s3vars == <<store, self, other, requests, method, resp, s3pc>>

\* _get_all_s3_objects (s3_file_management.py): the pages the store holds,
\* the locals of the generator, the requests sent, the responses received and
\* the objects yielded
VARIABLES pages, kwargs, continuation_token, is_truncated, sent, received,
          yielded, listpc

listvars == <<pages, kwargs, continuation_token, is_truncated, sent, received,
              yielded, listpc>>

\* PowerBI (powerbi_refresh.py): the time, the secret's last day, the fields
\* of the instance, and what the last read of header gave
VARIABLES clock, secret_expires, access_token, token_expires_at, header, pbipc

pbivars == <<clock, secret_expires, access_token, token_expires_at, header, pbipc>>

args == <<x, y, xType, yType, names, namesType, dups, same, comment, highlight>>
vars == <<x, y, xType, yType, names, namesType, dups, same, comment,
          highlight, dict_temp, stdout, pc, error, ran>>

\* what a call of compare leaves alone
notCompare == <<s3vars, listvars, pbivars>>

\* what S3FileManagement's calls leave alone
notS3 == <<vars, listvars, pbivars>>

\* what _get_all_s3_objects leaves alone
notList == <<vars, s3vars, pbivars>>

\* what PowerBI's calls leave alone
notPowerBI == <<vars, s3vars, listvars>>

allvars == <<vars, s3vars, listvars, pbivars>>

(***************************************************************************)
(* Bounds of the model.                                                    *)
(***************************************************************************)
\* the longest DataFrame of a call with well-formed data
MaxRows == 3
\* the longest DataFrame of a call whose data or arguments may be ill-formed
MaxAnyRows == 1

(***************************************************************************)
(* Data.                                                                   *)
(***************************************************************************)
\* the rows of well-formed tables: scalar cells only
RowVals == {[id |-> 1, v |-> "a"], [id |-> 2, v |-> "b"], [id |-> 2, v |-> "c"]}

\* a row whose v cell holds a Python list: pandas cannot hash it
ListRow == [id |-> 1, v |-> "['a']"]

Hashable(row) == row.v # "['a']"

\* a DataFrame built from a list of rows gets the RangeIndex 0..n-1
DataFrame(rows) == [k \in 1..Len(rows) |-> [i |-> k - 1, r |-> rows[k]]]

SeqsUpTo(S, n) == UNION {[1..m -> S] : m \in 0..n}

Frames(S, n) == {DataFrame(t) : t \in SeqsUpTo(S, n)}

\* the values a flag argument is given: two bools, an int, a str, an ndarray
PyBools == {"True", "False"}
PyValues == {"True", "False", "1", "'yes'", "array([True, False])"}

(***************************************************************************)
(* Python and pandas primitives, as compare uses them.                     *)
(***************************************************************************)
\* isinstance(v, bool): an int is not a bool
IsBool(v) == v \in PyBools

\* v == True: also true of the int 1
EqTrue(v) == v \in {"True", "1"}

\* `if v == True` raises ValueError for an array with more than one element
TruthAmbiguous(v) == v = "array([True, False])"

Digit == <<"0", "1", "2", "3", "4", "5", "6", "7", "8", "9">>

RECURSIVE str(_)
\* str(n) of a non-negative int
str(n) == IF n < 10 THEN Digit[n + 1] ELSE str(n \div 10) \o Digit[(n % 10) + 1]

\* the rows of a frame, in order
values(df) == [k \in 1..Len(df) |-> df[k].r]

\* df.shape with the two columns id and v
shape(df) == <<Len(df), 2>>

\* the rows df[k] with mask[k], labels kept (boolean indexing)
RECURSIVE BoolIndexFrom(_, _, _)
BoolIndexFrom(df, mask, k) ==
    IF k > Len(df) THEN <<>>
    ELSE (IF mask[k] THEN <<df[k]>> ELSE <<>>) \o BoolIndexFrom(df, mask, k + 1)

BoolIndex(df, mask) == BoolIndexFrom(df, mask, 1)

\* hashing the rows raises TypeError when a cell is a list
CanHash(df) == \A k \in 1..Len(df) : Hashable(df[k].r)

\* df.duplicated(keep = 'last'): every occurrence of a row before its last
duplicated_keep_last(df) ==
    [k \in 1..Len(df) |-> \E j \in (k + 1)..Len(df) : df[j].r = df[k].r]

\* df.duplicated(): every occurrence of a row after its first
duplicated(df) == [k \in 1..Len(df) |-> \E j \in 1..(k - 1) : df[j].r = df[k].r]

\* df.duplicated(keep = False): every occurrence of a row that occurs twice
duplicated_keep_False(df) ==
    [k \in 1..Len(df) |-> \E j \in 1..Len(df) : j # k /\ df[j].r = df[k].r]

\* df.drop_duplicates(): the first occurrence of each row
drop_duplicates(df) == BoolIndex(df, [k \in 1..Len(df) |-> ~duplicated(df)[k]])

\* a drop_duplicates(keep = False) written without keep: drop_duplicates()
drop_duplicates_keep_default(df) == drop_duplicates(df)

\* df.drop_duplicates(keep = False): only the rows that occur once
drop_duplicates_keep_False(df) ==
    BoolIndex(df, [k \in 1..Len(df) |-> ~duplicated_keep_False(df)[k]])

\* pd.concat([a, b], ignore_index = True)
concat(a, b) == DataFrame(values(a) \o values(b))

\* the rows of pd.merge(l, r, how = 'inner') on all columns, from l[k] on:
\* one row per matching pair, in the order of l
RECURSIVE MergeFrom(_, _, _)
MergeFrom(l, r, k) ==
    IF k > Len(l) THEN <<>>
    ELSE SelectSeq(values(r), LAMBDA row : row = l[k].r) \o MergeFrom(l, r, k + 1)

merge(l, r) == DataFrame(MergeFrom(l, r, 1))

\* d[k] = v
SetItem(d, k, v) == (k :> v) @@ d

(***************************************************************************)
(* The steps of compare.                                                   *)
(***************************************************************************)
\* lines 147-160: the message of the ValueError raised, "" when none is
ValidationError ==
    IF xType # "DataFrame" THEN "Please input x as a pandas.DataFrame"
    ELSE IF yType # "DataFrame" THEN "Please input y as a pandas.DataFrame"
    ELSE IF namesType # "list" THEN "Please input names as a list"
    ELSE IF ~IsBool(dups) THEN "Please input dups as a bool"
    ELSE IF ~IsBool(same) THEN "Please input same as a bool"
    ELSE IF ~IsBool(comment) THEN "Please input comment as a bool"
    ELSE ""

Validate ==
    /\ pc = "validate"
    /\ IF ValidationError # ""
       THEN pc' = "raised" /\ error' = ValidationError
       ELSE pc' = "same_values" /\ error' = error
    /\ UNCHANGED <<args, dict_temp, stdout, ran>>
    /\ UNCHANGED notCompare

\* line 165 without the two drop_duplicates()
same_values_raw(a, b) == merge(a, b)

\* line 165
same_values(a, b) == merge(drop_duplicates(a), drop_duplicates(b))

\* lines 164-167 with x.drop_duplicates(inplace = True) before the merge
SameValues_inplace ==
    /\ pc = "same_values"
    /\ IF CanHash(x) /\ CanHash(y)
       THEN /\ x' = drop_duplicates(x)
            /\ dict_temp' = SetItem(dict_temp, "same_values", same_values(x, y))
            /\ stdout' = stdout
       ELSE /\ x' = x
            /\ dict_temp' = dict_temp
            /\ stdout' = Append(stdout, "Unable to identify same values")
    /\ pc' = "outliers"
    /\ ran' = ran \cup {"same_values"}
    /\ UNCHANGED <<y, xType, yType, names, namesType, dups, same, comment, highlight, error>>
    /\ UNCHANGED notCompare

\* lines 164-167
SameValues ==
    /\ pc = "same_values"
    /\ IF CanHash(x) /\ CanHash(y)
       THEN /\ dict_temp' = SetItem(dict_temp, "same_values", same_values(x, y))
            /\ stdout' = stdout
       ELSE /\ dict_temp' = dict_temp
            /\ stdout' = Append(stdout, "Unable to identify same values")
    /\ pc' = "outliers"
    /\ ran' = ran \cup {"same_values"}
    /\ UNCHANGED <<args, error>>
    /\ UNCHANGED notCompare

\* the keys of the result
NotKey(a, b) == a \o "_not_" \o b
DupsKey(a) == a \o "_dups"

\* lines 169, 170 with keep = 'last': one row left of each group of equal rows
outliers_keep_last(df, sv) ==
    LET c == concat(df, sv)
    IN  BoolIndex(c, [k \in 1..Len(c) |-> ~duplicated_keep_last(c)[k]])

\* lines 169, 170: the rows of df that are not in the same values
outliers(df, sv) == drop_duplicates_keep_False(concat(df, sv))

\* line 169 completes: no KeyError, no TypeError, no IndexError
Line169 == "same_values" \in DOMAIN dict_temp /\ CanHash(x) /\ Len(names) >= 2
Line170 == Line169 /\ CanHash(y)

\* lines 168-172
Outliers ==
    /\ pc = "outliers"
    /\ LET d1 == IF Line169
                 THEN SetItem(dict_temp, NotKey(names[1], names[2]),
                              outliers(x, dict_temp["same_values"]))
                 ELSE dict_temp
           d2 == IF Line170
                 THEN SetItem(d1, NotKey(names[2], names[1]),
                              outliers(y, dict_temp["same_values"]))
                 ELSE d1
       IN  dict_temp' = d2
    /\ stdout' = IF Line170 THEN stdout ELSE Append(stdout, "Unable to find outliers")
    /\ pc' = "dups"
    /\ ran' = ran \cup {"outliers"}
    /\ UNCHANGED <<args, error>>
    /\ UNCHANGED notCompare

\* lines 176, 177 with keep = False: every occurrence of a repeated row
duplicates_keep_False(df) == BoolIndex(df, duplicated_keep_False(df))

\* lines 176, 177: df[df.duplicated() == True]
duplicates(df) == BoolIndex(df, duplicated(df))

Line176 == CanHash(x) /\ Len(names) >= 1
Line177 == Line176 /\ CanHash(y) /\ Len(names) >= 2

\* lines 174-179
Dups ==
    /\ pc = "dups"
    /\ IF EqTrue(dups)
       THEN /\ LET d1 == IF Line176
                         THEN SetItem(dict_temp, DupsKey(names[1]), duplicates(x))
                         ELSE dict_temp
                   d2 == IF Line177
                         THEN SetItem(d1, DupsKey(names[2]), duplicates(y))
                         ELSE d1
               IN  dict_temp' = d2
            /\ stdout' = IF Line177 THEN stdout
                         ELSE Append(stdout, "Unable to find duplicates")
            /\ ran' = ran \cup {"dups"}
       ELSE UNCHANGED <<dict_temp, stdout, ran>>
    /\ pc' = "Same"
    /\ UNCHANGED <<args, error>>
    /\ UNCHANGED notCompare

\* line 182 without its second comparison
ShapesEqualInputsOnly(a, b, sv) == shape(a) = shape(b)

\* line 182: (x.shape == y.shape) & (x.shape == same_values.shape)
ShapesEqual(a, b, sv) == shape(a) = shape(b) /\ shape(a) = shape(sv)

\* lines 180-187
SameFlag ==
    /\ pc = "Same"
    /\ IF EqTrue(same)
       THEN /\ IF "same_values" \in DOMAIN dict_temp
               THEN /\ dict_temp' = SetItem(dict_temp, "Same",
                                     ShapesEqual(x, y, dict_temp["same_values"]))
                    /\ stdout' = stdout
               ELSE /\ dict_temp' = dict_temp
                    /\ stdout' = Append(stdout,
                          "Unable to determine whether the Dataframes are the same")
            /\ ran' = ran \cup {"Same"}
       ELSE UNCHANGED <<dict_temp, stdout, ran>>
    /\ pc' = "highlight"
    /\ UNCHANGED <<args, error>>
    /\ UNCHANGED notCompare

(***************************************************************************)
(* The highlight step.  It reads the name dict_comp, which the function    *)
(* never assigns and which is no global of the module.                     *)
(***************************************************************************)
\* the names the module binds at its top level (lines 1-7 and each def)
ModuleGlobals ==
    [n \in {"pd", "os", "monthrange", "np", "datetime", "relativedelta", "re",
            "file_search", "compare", "add_time", "isPalindrome", "wrap",
            "module_import", "fracture_list"} |-> "object"]

\* a.isin(b) at row k, column c: b has the label of a[k] with the same cell
isin(a, b, k, c) == \E j \in 1..Len(b) : b[j].i = a[k].i /\ b[j].r[c] = a[k].r[c]

\* a cell of a[~a.isin(b)].fillna('-').astype(str): an int column that lost a
\* cell to NaN has become a float column
MaskedCell(a, b, k, c) ==
    IF isin(a, b, k, c) THEN "-"
    ELSE IF c = "v" THEN a[k].r.v
    ELSE IF \E m \in 1..Len(a) : isin(a, b, m, c) THEN str(a[k].r.id) \o ".0"
    ELSE str(a[k].r.id)

\* lines 200-203 at row k, column c: the two cells joined on the index label
HighlightCell(a, b, k, c) ==
    IF \E j \in 1..Len(b) : b[j].i = a[k].i
    THEN LET j == CHOOSE j \in 1..Len(b) : b[j].i = a[k].i
             s == MaskedCell(a, b, k, c) \o "/" \o MaskedCell(b, a, j, c)
         IN  IF s = "-/-" THEN "-" ELSE s
    ELSE "nan"

\* lines 197-203 on a dictionary dc
highlight_table(dc) ==
    LET a == dc["df1_not_df2"]
        b == dc["df2_not_df1"]
    IN  [k \in 1..Len(a) |->
            [i |-> a[k].i,
             r |-> [id |-> HighlightCell(a, b, k, "id"),
                    v |-> HighlightCell(a, b, k, "v")]]]

\* line 197 completes: dict_comp is bound and holds both keys
Line197 ==
    /\ "dict_comp" \in DOMAIN ModuleGlobals
    /\ {"df1_not_df2", "df2_not_df1"} \subseteq DOMAIN ModuleGlobals["dict_comp"]

\* lines 189-205; the test of line 189 is outside the try block
Highlight ==
    /\ pc = "highlight"
    /\ IF TruthAmbiguous(highlight)
       THEN /\ pc' = "raised"
            /\ error' = "The truth value of an array with more than one element is ambiguous"
            /\ UNCHANGED <<dict_temp, stdout, ran>>
       ELSE /\ pc' = "comment"
            /\ error' = error
            /\ IF EqTrue(highlight)
               THEN /\ IF Line197
                       THEN /\ dict_temp' = SetItem(dict_temp, "highlight",
                                     highlight_table(ModuleGlobals["dict_comp"]))
                            /\ stdout' = stdout
                       ELSE /\ dict_temp' = dict_temp
                            /\ stdout' = Append(stdout, "Unable to calculate highlight")
                    /\ ran' = ran \cup {"highlight"}
               ELSE UNCHANGED <<dict_temp, stdout, ran>>
    /\ UNCHANGED args
    /\ UNCHANGED notCompare

(***************************************************************************)
(* The commentary: each print either writes a line or raises.              *)
(***************************************************************************)
Printed(ok, text) == [ok |-> ok, text |-> text]

\* lines 209-211
CountLines(d) ==
    << IF "same_values" \in DOMAIN d
       THEN Printed(TRUE, "same values: " \o str(Len(d["same_values"])))
       ELSE Printed(FALSE, ""),
       IF Len(names) >= 2 /\ NotKey(names[1], names[2]) \in DOMAIN d
       THEN Printed(TRUE, "outliers in " \o names[1] \o ": "
                          \o str(Len(d[NotKey(names[1], names[2])])))
       ELSE Printed(FALSE, ""),
       IF Len(names) >= 2 /\ NotKey(names[2], names[1]) \in DOMAIN d
       THEN Printed(TRUE, "outliers in " \o names[2] \o ": "
                          \o str(Len(d[NotKey(names[2], names[1])])))
       ELSE Printed(FALSE, "") >>

\* lines 212-214
DupsLines(d) ==
    IF EqTrue(dups)
    THEN << IF Len(names) >= 1 /\ DupsKey(names[1]) \in DOMAIN d
            THEN Printed(TRUE, "duplicates in " \o names[1] \o ": "
                               \o str(Len(d[DupsKey(names[1])])))
            ELSE Printed(FALSE, ""),
            IF Len(names) >= 2 /\ DupsKey(names[2]) \in DOMAIN d
            THEN Printed(TRUE, "duplicates in " \o names[2] \o ": "
                               \o str(Len(d[DupsKey(names[2])])))
            ELSE Printed(FALSE, "") >>
    ELSE <<>>

\* lines 215-220
SameLines(d) ==
    IF EqTrue(same)
    THEN << IF "Same" \in DOMAIN d
            THEN Printed(TRUE, "DataFrames are "
                               \o (IF d["Same"] THEN "the same" ELSE "not the same"))
            ELSE Printed(FALSE, "") >>
    ELSE <<>>

\* the lines written up to the first print that raises, then the except branch
RECURSIVE PrintFrom(_, _)
PrintFrom(lines, k) ==
    IF k > Len(lines) THEN <<>>
    ELSE IF lines[k].ok THEN <<lines[k].text>> \o PrintFrom(lines, k + 1)
    ELSE <<"Unable to print commentary">>

\* lines 207-222
Comment ==
    /\ pc = "comment"
    /\ IF EqTrue(comment)
       THEN /\ stdout' = stdout \o PrintFrom(CountLines(dict_temp)
                               \o DupsLines(dict_temp) \o SameLines(dict_temp), 1)
            /\ ran' = ran \cup {"comment"}
       ELSE UNCHANGED <<stdout, ran>>
    /\ pc' = "return"
    /\ UNCHANGED <<args, dict_temp, error>>
    /\ UNCHANGED notCompare

\* line 224
Return ==
    /\ pc = "return"
    /\ pc' = "returned"
    /\ UNCHANGED <<args, dict_temp, stdout, error, ran>>
    /\ UNCHANGED notCompare

(***************************************************************************)
(* The calls.                                                              *)
(***************************************************************************)
\* a call: the arguments, and the state at line 147
Call(frames, types, nameTypes, nameLists, flags, highlights) ==
    /\ x \in frames
    /\ y \in frames
    /\ xType \in types
    /\ yType \in types
    /\ namesType \in nameTypes
    /\ names \in nameLists
    /\ dups \in flags
    /\ same \in flags
    /\ comment \in flags
    /\ highlight \in highlights
    /\ dict_temp = <<>>
    /\ stdout = <<>>
    /\ pc = "validate"
    /\ error = ""
    /\ ran = {}

\* calls with well-formed tables and arguments, names as in the default
\* no call of S3FileManagement is under way
S3Idle ==
    /\ store = <<>>
    /\ self = <<>>
    /\ other = <<>>
    /\ requests = <<>>
    /\ method = ""
    /\ resp = ""
    /\ s3pc = "idle"

\* no call of _get_all_s3_objects is under way
ListIdle ==
    /\ pages = <<>>
    /\ kwargs = <<>>
    /\ continuation_token = "None"
    /\ is_truncated = TRUE
    /\ sent = <<>>
    /\ received = <<>>
    /\ yielded = <<>>
    /\ listpc = "idle"

\* no PowerBI instance is in use
PowerBIIdle ==
    /\ clock = 0
    /\ secret_expires = 0
    /\ access_token = "None"
    /\ token_expires_at = 0
    /\ header = "None"
    /\ pbipc = "idle"

\* nothing but compare is called
NotCompareIdle == S3Idle /\ ListIdle /\ PowerBIIdle

Init ==
    /\ Call(Frames(RowVals, MaxRows), {"DataFrame"}, {"list"}, {<<"x", "y">>},
            PyBools, PyBools)
    /\ NotCompareIdle

\* calls with any arguments: a table with a list cell, an argument of another
\* type, a names list of one element or of twice the same name
InitAny ==
    /\ Call(Frames(RowVals \cup {ListRow}, MaxAnyRows), {"DataFrame", "dict"},
            {"list", "str"}, {<<"x", "y">>, <<"df2", "df2">>, <<"x">>},
            {"True", "False", "1"}, PyValues)
    /\ NotCompareIdle

Next ==
    \/ Validate
    \/ SameValues
    \/ Outliers
    \/ Dups
    \/ SameFlag
    \/ Highlight
    \/ Comment
    \/ Return

Spec == Init /\ [][Next]_allvars

SpecAny == InitAny /\ [][Next]_allvars

(***************************************************************************)
(* S3FileManagement: copy, delete and rename of a folder of a bucket.      *)
(* A key is the sequence of the parts between its slashes; an object of    *)
(* the name f<n> has the size FileSize(n).                                 *)
(***************************************************************************)
\* the most files a folder holds
MaxFiles == 2

\* line 7: the module-level bucket, the default of __init__
bucket == "your_bucket"

Buckets == {bucket, "my_bucket"}

Folders == <<"dst", "src">>

FileName(n) == "f" \o str(n)

\* all keys, in the order list_objects_v2 returns them
KeyOrder ==
    [k \in 1..(Len(Folders) * MaxFiles) |->
        <<Folders[((k - 1) \div MaxFiles) + 1], FileName(((k - 1) % MaxFiles) + 1)>>]

Keys == {KeyOrder[k] : k \in 1..Len(KeyOrder)}

\* the size in bytes of the objects named f<n>: 1000, 6000, 11000, ...
FileSize(n) == 1000 + 5000 * (n - 1)

SizeOf(key) == FileSize(CHOOSE n \in 1..MaxFiles : FileName(n) = key[2])

\* round(bytes / 1024 / 1024, 2), in hundredths of a MB
Round2MB(bytes) == (bytes * 200 + 1048576) \div 2097152

\* the objects of bucket b whose key starts with the prefix folder + '/'
\* (lines 79-98, 109-110: every page of the listing, in order)
get_all_s3_objects(b, folder) ==
    LET hit(key) == store[b][key] /\ key[1] = folder
        keys == SelectSeq(KeyOrder, hit)
    IN  [k \in 1..Len(keys) |-> [Key |-> keys[k], Size |-> SizeOf(keys[k]), CopiedTo |-> <<>>]]

RECURSIVE SumSizes(_, _)
SumSizes(files, k) == IF k > Len(files) THEN 0 ELSE files[k].Size + SumSizes(files, k + 1)

\* lines 61-63, 105-116: the instance after get_files
Instance(b, folder) ==
    LET files == get_all_s3_objects(b, folder)
    IN  [bucket |-> b, folder |-> folder, folder_split |-> <<folder>>,
         files |-> files, file_count |-> Len(files),
         folder_size_bytes |-> SumSizes(files, 1),
         copy_count |-> 0, delete_count |-> 0]

\* lines 67-74: the assertions of __init__ hold
InitAsserts(inst) ==
    /\ inst.files # <<>>
    /\ Cardinality({inst.files[k].Key[1] : k \in 1..Len(inst.files)}) = 1

ListRequest(b, folder) == [op |-> "list_objects_v2", Bucket |-> b, Key |-> <<folder>>]

\* lines 59-77: S3FileManagement(folder = 'src', bucket = b)
Construct ==
    /\ s3pc = "init"
    /\ self' = Instance(self.bucket, self.folder)
    /\ requests' = Append(requests, ListRequest(self.bucket, self.folder))
    /\ s3pc' = IF InitAsserts(self') THEN "ready" ELSE "raised"
    /\ UNCHANGED <<store, other, method, resp>>
    /\ UNCHANGED notS3

\* a call of copy_folder('dst'), delete_folder() or rename_folder('dst')
CallMethod ==
    /\ s3pc = "ready"
    /\ \E m \in {"copy_folder", "delete_folder", "rename_folder"} :
          /\ method' = m
          /\ IF m = "delete_folder"
             THEN s3pc' = "prompt" /\ self' = self
             ELSE s3pc' = "copy" /\ self' = [self EXCEPT !.copy_count = 0]
    /\ UNCHANGED <<store, other, requests, resp>>
    /\ UNCHANGED notS3

\* line 152: other_folder + '/'.join(key.split('/')[len(self.folder_split):])
other_key(key, folder_split) == <<"dst">> \o SubSeq(key, Len(folder_split) + 1, Len(key))

\* lines 148-156: one turn of the loop of copy_folder
CopyFile ==
    /\ s3pc = "copy"
    /\ self.copy_count < Len(self.files)
    /\ LET k == self.copy_count + 1
           file == self.files[k]
           to == other_key(file.Key, self.folder_split)
       IN  /\ store' = [store EXCEPT ![self.bucket][to] = TRUE]
           /\ requests' = Append(requests,
                 [op |-> "copy", Bucket |-> self.bucket, Key |-> file.Key])
           /\ self' = [self EXCEPT !.files[k].CopiedTo = to, !.copy_count = k]
    /\ UNCHANGED <<other, method, resp, s3pc>>
    /\ UNCHANGED notS3

\* line 153: s3client.copy raises (the request fails)
CopyRaises ==
    /\ s3pc = "copy"
    /\ self.copy_count < Len(self.files)
    /\ s3pc' = "raised"
    /\ UNCHANGED <<store, self, other, requests, method, resp>>
    /\ UNCHANGED notS3

\* line 158, and line 162 of rename_folder
CopyDone ==
    /\ s3pc = "copy"
    /\ self.copy_count = Len(self.files)
    /\ s3pc' = IF method = "rename_folder" THEN "verify" ELSE "done"
    /\ UNCHANGED <<store, self, other, requests, method, resp>>
    /\ UNCHANGED notS3

\* lines 166-167 with the file counts compared only
CountsMatch(o, s) == o.file_count = s.file_count

\* lines 166-167: the two assertions of rename_folder hold
CopyVerified(o, s) ==
    /\ o.file_count = s.file_count
    /\ Round2MB(o.folder_size_bytes) = Round2MB(s.folder_size_bytes)

\* lines 164-167: other = cls(other_folder), with the default bucket
Verify ==
    /\ s3pc = "verify"
    /\ LET o == Instance(bucket, "dst")
       IN  /\ other' = <<o>>
           /\ s3pc' = IF InitAsserts(o) /\ CopyVerified(o, self) THEN "prompt" ELSE "raised"
    /\ requests' = Append(requests, ListRequest(bucket, "dst"))
    /\ UNCHANGED <<store, self, method, resp>>
    /\ UNCHANGED notS3

\* what the user may type at the prompt
Answers == {"y", "Y", "n", ""}

\* resp.lower()
lower(r) == IF r = "Y" THEN "y" ELSE r

\* lines 123-129, 140-141: the prompt of delete_folder
Prompt ==
    /\ s3pc = "prompt"
    /\ \E r \in Answers :
          /\ resp' = r
          /\ IF lower(r) = "y"
             THEN s3pc' = "delete" /\ self' = [self EXCEPT !.delete_count = 0]
             ELSE s3pc' = "done" /\ self' = self
    /\ UNCHANGED <<store, other, requests, method>>
    /\ UNCHANGED notS3

\* lines 130-135: one turn of the loop of delete_folder; Bucket is the
\* module-level bucket
DeleteFile ==
    /\ s3pc = "delete"
    /\ self.delete_count < Len(self.files)
    /\ LET k == self.delete_count + 1
           file == self.files[k]
       IN  /\ store' = [store EXCEPT ![bucket][file.Key] = FALSE]
           /\ requests' = Append(requests,
                 [op |-> "delete_object", Bucket |-> bucket, Key |-> file.Key])
           /\ self' = [self EXCEPT !.delete_count = k]
    /\ UNCHANGED <<other, method, resp, s3pc>>
    /\ UNCHANGED notS3

\* line 138
DeleteDone ==
    /\ s3pc = "delete"
    /\ self.delete_count = Len(self.files)
    /\ s3pc' = "done"
    /\ UNCHANGED <<store, self, other, requests, method, resp>>
    /\ UNCHANGED notS3

\* no call of compare is under way
CompareIdle ==
    /\ x = <<>> /\ y = <<>> /\ xType = "DataFrame" /\ yType = "DataFrame"
    /\ names = <<"x", "y">> /\ namesType = "list"
    /\ dups = "False" /\ same = "False" /\ comment = "False" /\ highlight = "True"
    /\ dict_temp = <<>> /\ stdout = <<>> /\ pc = "idle" /\ error = "" /\ ran = {}

\* S3FileManagement('src', bucket = b) on any two buckets
InitS3 ==
    /\ store \in [Buckets -> [Keys -> BOOLEAN]]
    /\ \E b \in Buckets :
          self = [bucket |-> b, folder |-> "src", folder_split |-> <<"src">>,
                  files |-> <<>>, file_count |-> 0, folder_size_bytes |-> 0,
                  copy_count |-> 0, delete_count |-> 0]
    /\ other = <<>>
    /\ requests = <<>>
    /\ method = ""
    /\ resp = ""
    /\ s3pc = "init"
    /\ CompareIdle /\ ListIdle /\ PowerBIIdle

NextS3 ==
    \/ Construct
    \/ CallMethod
    \/ CopyFile
    \/ CopyRaises
    \/ CopyDone
    \/ Verify
    \/ Prompt
    \/ DeleteFile
    \/ DeleteDone

SpecS3 == InitS3 /\ [][NextS3]_allvars

(***************************************************************************)
(* The result of a call, in the words of the specification.                *)
(***************************************************************************)
Returned == pc = "returned"

HasSame == "same_values" \in DOMAIN dict_temp

sameRows == dict_temp["same_values"]

HasOutliers ==
    /\ Len(names) >= 2
    /\ NotKey(names[1], names[2]) \in DOMAIN dict_temp
    /\ NotKey(names[2], names[1]) \in DOMAIN dict_temp

onlyInFirst == dict_temp[NotKey(names[1], names[2])]

onlyInSecond == dict_temp[NotKey(names[2], names[1])]

HasDuplicates ==
    /\ Len(names) >= 2
    /\ DupsKey(names[1]) \in DOMAIN dict_temp
    /\ DupsKey(names[2]) \in DOMAIN dict_temp

duplicatesFirst == dict_temp[DupsKey(names[1])]

duplicatesSecond == dict_temp[DupsKey(names[2])]

HasEqual == "Same" \in DOMAIN dict_temp

tablesEqual == dict_temp["Same"]

\* the distinct rows of a frame
RowSet(df) == {df[k].r : k \in 1..Len(df)}

\* how many times a row occurs in a frame
Count(df, row) == Cardinality({k \in 1..Len(df) : df[k].r = row})

\* the two frames hold the same rows the same number of times
SameMultiset(a, b) == \A row \in RowSet(a) \cup RowSet(b) : Count(a, row) = Count(b, row)

\* the messages written so far
Messages == {stdout[k] : k \in 1..Len(stdout)}

\* the tables of the scenario of the specification
ScenarioA == DataFrame(<<[id |-> 1, v |-> "a"], [id |-> 2, v |-> "b"]>>)
ScenarioB == DataFrame(<<[id |-> 1, v |-> "a"], [id |-> 2, v |-> "c"]>>)

(***************************************************************************)
(* C1..C5: same, onlyInFirst, onlyInSecond.                                *)
(***************************************************************************)
\* C1: after compare(A, B) the distinct rows of same together with those of
\* onlyInFirst are the distinct rows of A, and those of same together with
\* those of onlyInSecond are the distinct rows of B.
C1_SameAndOutliersCoverInput ==
    (Returned /\ HasSame /\ HasOutliers) =>
        /\ RowSet(sameRows) \cup RowSet(onlyInFirst) = RowSet(x)
        /\ RowSet(sameRows) \cup RowSet(onlyInSecond) = RowSet(y)

\* C2: no row of onlyInFirst and no row of onlyInSecond equals a row of same,
\* whatever the multiplicities of the rows in A and B.
C2_OutliersDisjointFromSame ==
    (HasSame /\ HasOutliers) =>
        /\ RowSet(onlyInFirst) \cap RowSet(sameRows) = {}
        /\ RowSet(onlyInSecond) \cap RowSet(sameRows) = {}

\* a call returned with rows in all three frames and a row of same that
\* occurs twice in A
C2_Witness ==
    /\ Returned /\ HasSame /\ HasOutliers
    /\ Len(onlyInFirst) > 0 /\ Len(onlyInSecond) > 0
    /\ \E k \in 1..Len(sameRows) : Count(x, sameRows[k].r) >= 2

\* C3: same holds a row if and only if the row occurs in both A and B, and
\* holds it exactly once; for the scenario tables same is [{1,a}],
\* onlyInFirst is [{2,b}] and onlyInSecond is [{2,c}].
C3_SameIsDistinctIntersection ==
    /\ HasSame =>
         /\ RowSet(sameRows) = RowSet(x) \cap RowSet(y)
         /\ \A k \in 1..Len(sameRows) : Count(sameRows, sameRows[k].r) = 1
    /\ (Returned /\ x = ScenarioA /\ y = ScenarioB) =>
         /\ HasSame /\ HasOutliers
         /\ values(sameRows) = <<[id |-> 1, v |-> "a"]>>
         /\ values(onlyInFirst) = <<[id |-> 2, v |-> "b"]>>
         /\ values(onlyInSecond) = <<[id |-> 2, v |-> "c"]>>

\* the scenario call has returned
C3_Witness == Returned /\ x = ScenarioA /\ y = ScenarioB /\ HasSame /\ Len(sameRows) = 1

\* C4 as stated: a row that occurs exactly twice in A and once in same
\* contributes exactly one row to onlyInFirst; symmetrically for B.
C4_TwiceGivesOneResidual ==
    (Returned /\ HasSame /\ HasOutliers) =>
        \A row \in RowSet(sameRows) :
            /\ (Count(x, row) = 2 /\ Count(sameRows, row) = 1) => Count(onlyInFirst, row) = 1
            /\ (Count(y, row) = 2 /\ Count(sameRows, row) = 1) => Count(onlyInSecond, row) = 1

\* C4 as amended: a row that occurs exactly twice in A and once in same
\* contributes no row to onlyInFirst; symmetrically for B and onlyInSecond.
C4_TwiceGivesNoResidual ==
    (Returned /\ HasSame /\ HasOutliers) =>
        \A row \in RowSet(sameRows) :
            /\ (Count(x, row) = 2 /\ Count(sameRows, row) = 1) => Count(onlyInFirst, row) = 0
            /\ (Count(y, row) = 2 /\ Count(sameRows, row) = 1) => Count(onlyInSecond, row) = 0

\* a call returned with a row twice in A and once in same, and one twice in B
C4_Witness ==
    /\ Returned /\ HasSame /\ HasOutliers
    /\ \E row \in RowSet(sameRows) : Count(x, row) = 2 /\ Count(sameRows, row) = 1
    /\ \E row \in RowSet(sameRows) : Count(y, row) = 2 /\ Count(sameRows, row) = 1

\* C5: compare(A, A) with the equality flag enabled yields tablesEqual = true,
\* empty onlyInFirst and onlyInSecond, and same equal to deduplicated A, also
\* when A holds duplicate rows.
C5_CompareWithItself ==
    (Returned /\ x = y /\ EqTrue(same)) =>
        /\ HasEqual /\ tablesEqual
        /\ HasOutliers /\ Len(onlyInFirst) = 0 /\ Len(onlyInSecond) = 0
        /\ HasSame /\ values(sameRows) = values(drop_duplicates(x))

(***************************************************************************)
(* C6: the equality flag.                                                  *)
(***************************************************************************)
\* C6 as stated: there are tables A and B with identical columns whose row
\* multisets differ and for which compare returns tablesEqual = true (stated
\* where compare is called, over the tables it can be called with).
C6_FalsePositiveExists ==
    pc = "validate" =>
        \E a \in Frames(RowVals, MaxRows), b \in Frames(RowVals, MaxRows) :
            /\ ~SameMultiset(a, b)
            /\ ShapesEqual(a, b, same_values(a, b))

\* C6 as amended: tablesEqual = true implies that A and B hold the same
\* multiset of rows (the flag admits no false positive).
C6_EqualImpliesSameMultiset ==
    (HasEqual /\ tablesEqual) => SameMultiset(x, y)

\* a call returned tablesEqual = true for two tables in different row order
C6_Witness ==
    /\ Returned /\ HasEqual /\ tablesEqual
    /\ Len(x) >= 2 /\ x # y

(***************************************************************************)
(* C7: the duplicates.                                                     *)
(***************************************************************************)
\* the row labels of a frame increase strictly
InOrder(df) == \A j, k \in 1..Len(df) : j < k => df[j].i < df[k].i

\* every row of d is the row of df with its label
RowsOf(d, df) == \A k \in 1..Len(d) : d[k] = df[d[k].i + 1]

\* C7: with includeDuplicates enabled, a row that occurs k times in A is k-1
\* times in duplicatesFirst when k >= 2 and not in it when k = 1, the rows in
\* their original order; A = [r, r, s] gives duplicatesFirst = [r].  The same
\* for B and duplicatesSecond.
C7_DuplicatesAreLaterOccurrences ==
    (EqTrue(dups) /\ pc \notin {"validate", "same_values", "outliers", "dups"}) =>
        /\ HasDuplicates
        /\ \A row \in RowVals :
              /\ Count(duplicatesFirst, row) =
                    IF Count(x, row) >= 2 THEN Count(x, row) - 1 ELSE 0
              /\ Count(duplicatesSecond, row) =
                    IF Count(y, row) >= 2 THEN Count(y, row) - 1 ELSE 0
        /\ InOrder(duplicatesFirst) /\ RowsOf(duplicatesFirst, x)
        /\ InOrder(duplicatesSecond) /\ RowsOf(duplicatesSecond, y)
        /\ \A k \in 1..Len(duplicatesFirst) :
              \E j \in 1..duplicatesFirst[k].i : x[j].r = duplicatesFirst[k].r
        /\ \A k \in 1..Len(duplicatesSecond) :
              \E j \in 1..duplicatesSecond[k].i : y[j].r = duplicatesSecond[k].r
        /\ values(x) = <<[id |-> 1, v |-> "a"], [id |-> 1, v |-> "a"], [id |-> 2, v |-> "b"]>>
              => values(duplicatesFirst) = <<[id |-> 1, v |-> "a"]>>

\* a call returned the duplicates of A = [r, r, s] and of a B with a row
\* that occurs three times
C7_Witness ==
    /\ Returned /\ EqTrue(dups) /\ HasDuplicates
    /\ values(x) = <<[id |-> 1, v |-> "a"], [id |-> 1, v |-> "a"], [id |-> 2, v |-> "b"]>>
    /\ Len(duplicatesFirst) = 1
    /\ Len(duplicatesSecond) = 2

(***************************************************************************)
(* C8: the highlight.                                                      *)
(***************************************************************************)
\* the cell the specification gives the highlight for two residual cells
SpecCell(left, right) == IF left = right THEN "-" ELSE left \o "/" \o right

\* onlyInFirst and onlyInSecond have the same labels at the same positions
Aligned ==
    /\ Len(onlyInFirst) = Len(onlyInSecond)
    /\ \A k \in 1..Len(onlyInFirst) : onlyInFirst[k].i = onlyInSecond[k].i

\* C8: with includeHighlight enabled and the residual tables aligned, the
\* result holds a highlight table whose cells are '-' where the two residual
\* cells are equal and 'left/right' where they differ; the scenario tables
\* give the highlight row {id: '-', v: 'b/c'}.
C8_HighlightInResult ==
    (Returned /\ EqTrue(highlight) /\ HasOutliers /\ Aligned) =>
        /\ "highlight" \in DOMAIN dict_temp
        /\ Len(dict_temp["highlight"]) = Len(onlyInFirst)
        /\ \A k \in 1..Len(onlyInFirst) :
              /\ dict_temp["highlight"][k].r.id =
                    SpecCell(str(onlyInFirst[k].r.id), str(onlyInSecond[k].r.id))
              /\ dict_temp["highlight"][k].r.v =
                    SpecCell(onlyInFirst[k].r.v, onlyInSecond[k].r.v)
        /\ (x = ScenarioA /\ y = ScenarioB) =>
              values(dict_temp["highlight"]) = <<[id |-> "-", v |-> "b/c"]>>

(***************************************************************************)
(* C9, C10: the errors.                                                    *)
(***************************************************************************)
\* an argument of the call is not of the type the specification requires
InvalidOption ==
    \/ xType # "DataFrame"
    \/ yType # "DataFrame"
    \/ namesType # "list"
    \/ ~IsBool(dups)
    \/ ~IsBool(same)
    \/ ~IsBool(comment)
    \/ ~IsBool(highlight)

\* C9: if a table is not a table, names is not a list or one of the four
\* flags is not a boolean, compare raises at once: it returns no result and
\* no step has run.
C9_InvalidOptionFailsFast ==
    InvalidOption =>
        /\ pc \in {"validate", "raised"}
        /\ ran = {}
        /\ DOMAIN dict_temp = {}
        /\ stdout = <<>>

\* the messages of the ValueErrors of lines 147-158
ValidationMessages ==
    {"Please input x as a pandas.DataFrame", "Please input y as a pandas.DataFrame",
     "Please input names as a list", "Please input dups as a bool",
     "Please input same as a bool", "Please input comment as a bool"}

\* the step that wrote this message has failed
Failed(message) == message \in Messages

\* some field of the step is in the result
SomeOutliers ==
    /\ Len(names) >= 2
    /\ \/ NotKey(names[1], names[2]) \in DOMAIN dict_temp
       \/ NotKey(names[2], names[1]) \in DOMAIN dict_temp

SomeDuplicates ==
    \/ Len(names) >= 1 /\ DupsKey(names[1]) \in DOMAIN dict_temp
    \/ Len(names) >= 2 /\ DupsKey(names[2]) \in DOMAIN dict_temp

\* C10: once validation has passed compare never raises; it returns a result
\* in which the fields of a step that failed are absent and the fields of
\* every enabled step that did not fail are present.
C10_BestEffortResult ==
    /\ pc = "raised" => error \in ValidationMessages
    /\ Failed("Unable to identify same values") => ~HasSame
    /\ Failed("Unable to find outliers") => ~SomeOutliers
    /\ Failed("Unable to find duplicates") => ~SomeDuplicates
    /\ Failed("Unable to determine whether the Dataframes are the same") => ~HasEqual
    /\ Failed("Unable to calculate highlight") => "highlight" \notin DOMAIN dict_temp
    /\ Returned =>
         /\ ~Failed("Unable to identify same values") => HasSame
         /\ ~Failed("Unable to find outliers") => HasOutliers
         /\ (EqTrue(dups) /\ ~Failed("Unable to find duplicates")) => HasDuplicates
         /\ (EqTrue(same)
               /\ ~Failed("Unable to determine whether the Dataframes are the same"))
               => HasEqual
         /\ (EqTrue(highlight) /\ ~Failed("Unable to calculate highlight"))
               => "highlight" \in DOMAIN dict_temp

(***************************************************************************)
(* C11: the frame of a call.                                               *)
(***************************************************************************)
\* C11: compare leaves both caller-supplied tables as they are (rows, order,
\* multiplicities) in every step, for every combination of flags and whether
\* or not a step fails, and the summary step changes no field of the result.
C11_InputsAndFieldsUntouched ==
    [][/\ x' = x
       /\ y' = y
       /\ pc = "comment" => dict_temp' = dict_temp]_vars

\* a call with the summary enabled returned after a step failed, on a first
\* table of MaxRows rows that holds a row twice, with a summary line written
C11_Witness ==
    /\ Returned /\ EqTrue(comment)
    /\ Failed("Unable to calculate highlight")
    /\ Len(x) = MaxRows /\ duplicates(x) # <<>>
    /\ HasSame /\ HasDuplicates
    /\ \E m \in Messages : m # "Unable to calculate highlight"

(***************************************************************************)
(* C16: the keys of the result.                                            *)
(***************************************************************************)
\* C16: for every names list of two strings, also with names[0] = names[1],
\* the result holds onlyInFirst and onlyInSecond (and, when enabled,
\* duplicatesFirst and duplicatesSecond) as separate entries: on return each
\* entry still holds the frame of its own table, neither overwritten by the
\* other.
C16_SeparateEntries ==
    (Returned /\ Len(names) = 2 /\ HasSame /\ HasOutliers) =>
        /\ onlyInFirst = outliers(x, sameRows)
        /\ onlyInSecond = outliers(y, sameRows)
        /\ (EqTrue(dups) /\ HasDuplicates) =>
              /\ duplicatesFirst = duplicates(x)
              /\ duplicatesSecond = duplicates(y)

(***************************************************************************)
(* S3FileManagement._get_all_s3_objects: the paginated listing.  The store *)
(* holds the listing as a sequence of pages; a request without a token is  *)
(* answered by the first page, a request with the token of page k by page  *)
(* k + 1.                                                                  *)
(***************************************************************************)
\* the most pages of a listing
MaxPages == 3
\* the most objects of a page
PageSize == 2

\* the object j of page k
Object(k, j) == "src/" \o str(k) \o "_" \o str(j)

\* the NextContinuationToken of page k
Token(k) == "token" \o str(k)

NoKeys == <<>>

\* page k of n, holding size objects; size -1: a response without 'Contents'.
\* A truncated response carries a NextContinuationToken, the last one none.
Page(k, n, size) ==
    ("IsTruncated" :> (k < n))
    @@ (IF size >= 0 THEN "Contents" :> [j \in 1..size |-> Object(k, j)] ELSE NoKeys)
    @@ (IF k < n THEN "NextContinuationToken" :> Token(k) ELSE NoKeys)

\* the listings the store may hold
Listings ==
    UNION {{[k \in 1..n |-> Page(k, n, sizes[k])] : sizes \in [1..n -> -1..PageSize]} :
               n \in 1..MaxPages}

\* dict.get(key, default)
get(d, key, default) == IF key \in DOMAIN d THEN d[key] ELSE default

\* line 92: s3client.list_objects_v2(**kw)
list_objects_v2(kw) ==
    IF "ContinuationToken" \in DOMAIN kw
    THEN pages[(CHOOSE k \in 1..Len(pages) : Token(k) = kw["ContinuationToken"]) + 1]
    ELSE pages[1]

\* lines 81-85: the assertion and the locals before the loop
ListStart ==
    /\ listpc = "call"
    /\ IF "Prefix" \in DOMAIN kwargs
       THEN /\ continuation_token' = "None"
            /\ is_truncated' = TRUE
            /\ kwargs' = SetItem(kwargs, "Bucket", bucket)
            /\ listpc' = "loop"
       ELSE /\ listpc' = "raised"
            /\ UNCHANGED <<continuation_token, is_truncated, kwargs>>
    /\ UNCHANGED <<pages, sent, received, yielded>>
    /\ UNCHANGED notList

\* line 89: if continuation_token
Truthy(token) == token # "None" /\ token # ""

\* lines 87-98 without lines 89-90: the token is never put into the request
ListPage_no_token ==
    /\ listpc = "loop"
    /\ is_truncated
    /\ kwargs' = kwargs
    /\ LET response == list_objects_v2(kwargs')
       IN  /\ sent' = Append(sent, kwargs')
           /\ received' = Append(received, response)
           /\ yielded' = yielded \o get(response, "Contents", <<>>)
           /\ is_truncated' = response["IsTruncated"]
           /\ continuation_token' = get(response, "NextContinuationToken", "None")
    /\ UNCHANGED <<pages, listpc>>
    /\ UNCHANGED notList

\* lines 87-98: one turn of the loop
ListPage ==
    /\ listpc = "loop"
    /\ is_truncated
    /\ kwargs' = IF Truthy(continuation_token)
                 THEN SetItem(kwargs, "ContinuationToken", continuation_token)
                 ELSE kwargs
    /\ LET response == list_objects_v2(kwargs')
       IN  /\ sent' = Append(sent, kwargs')
           /\ received' = Append(received, response)
           /\ yielded' = yielded \o get(response, "Contents", <<>>)
           /\ is_truncated' = response["IsTruncated"]
           /\ continuation_token' = get(response, "NextContinuationToken", "None")
    /\ UNCHANGED <<pages, listpc>>
    /\ UNCHANGED notList

\* line 87: the loop ends, and the generator with it
ListEnd ==
    /\ listpc = "loop"
    /\ ~is_truncated
    /\ listpc' = "done"
    /\ UNCHANGED <<pages, kwargs, continuation_token, is_truncated, sent, received, yielded>>
    /\ UNCHANGED notList

\* _get_all_s3_objects(Prefix = 'src/'), or without Prefix, on any listing
InitList ==
    /\ pages \in Listings
    /\ kwargs \in {NoKeys, "Prefix" :> "src/"}
    /\ continuation_token = "None"
    /\ is_truncated = TRUE
    /\ sent = <<>>
    /\ received = <<>>
    /\ yielded = <<>>
    /\ listpc = "call"
    /\ CompareIdle /\ S3Idle /\ PowerBIIdle

NextList ==
    \/ ListStart
    \/ ListPage
    \/ ListEnd

SpecList == InitList /\ [][NextList]_allvars

(***************************************************************************)
(* PowerBI.header: the bearer token and its renewal.  The clock counts the *)
(* seconds from 22:00 UTC of the day before the clocks of Europe/London go *)
(* back; the machine keeps UTC.  A bearer token carries the moment the     *)
(* identity service lets it expire.                                        *)
(***************************************************************************)
\* the last second of the clock
MaxClock == 16200

\* the moments the instance may be constructed at
Starts == {0, 9000}

\* the time that may pass between two reads of header
Waits == {30, 1800}

SecondsPerDay == 86400

\* 22:00, the time of day at clock 0
Epoch == 79200

\* 01:00 UTC: Europe/London goes from UTC+1 back to UTC
ClocksGoBack == 10800

\* line 105: the lifetime the identity service grants, and the default of get
expires_in == 3600

\* line 112: timedelta(seconds = 30)
margin == 30

\* datetime.now().astimezone(pytz.timezone('Europe/London')).replace(tzinfo = None)
london_now(t) == Epoch + t + (IF t < ClocksGoBack THEN 3600 ELSE 0)

\* line 82: datetime.now().date(), in days from the day of clock 0
today(t) == (Epoch + t) \div SecondsPerDay

\* what acquire_token_for_client may answer at the moment t
Answer(kind, t) ==
    CASE kind = "granted" ->
            [access_token |-> [issued_at |-> t, expires_on |-> t + expires_in],
             expires_in |-> expires_in]
      [] kind = "error" -> [error |-> "invalid_client"]
      [] kind = "empty" -> [token_type |-> "Bearer"]

AnswerKinds == {"granted", "error", "empty"}

\* lines 82-84, 92-97: the exception _authenticate raises, or "" for none
authenticate_raises(response) ==
    IF today(clock) > secret_expires THEN "Secret Expired"
    ELSE IF \/ "error" \in DOMAIN response
            \/ "access_token" \notin DOMAIN response
         THEN "Unable to authenticate"
         ELSE ""

\* lines 103-105: the fields _authenticate sets
authenticated(response) ==
    /\ access_token' = response.access_token
    /\ token_expires_at' = london_now(clock) + get(response, "expires_in", expires_in)

\* lines 110-112
check_token_still_valid == london_now(clock) + margin < token_expires_at

\* lines 50-51: __init__ authenticates
PowerBIConstruct ==
    /\ pbipc = "init"
    /\ \E kind \in AnswerKinds :
          LET response == Answer(kind, clock)
          IN  IF authenticate_raises(response) = ""
              THEN authenticated(response) /\ pbipc' = "ready"
              ELSE pbipc' = "raised" /\ UNCHANGED <<access_token, token_expires_at>>
    /\ UNCHANGED <<clock, secret_expires, header>>
    /\ UNCHANGED notPowerBI

\* time passes between two reads of header
Wait ==
    /\ pbipc = "ready"
    /\ \E w \in Waits :
          /\ clock + w <= MaxClock
          /\ clock' = clock + w
    /\ UNCHANGED <<secret_expires, access_token, token_expires_at, header, pbipc>>
    /\ UNCHANGED notPowerBI

\* lines 58-68: a read of the property header
Header ==
    /\ pbipc = "ready"
    /\ IF check_token_still_valid
       THEN /\ header' = [Authorization |-> access_token, called_at |-> clock]
            /\ UNCHANGED <<access_token, token_expires_at>>
       ELSE \E kind \in AnswerKinds :
               LET response == Answer(kind, clock)
                   raised == authenticate_raises(response)
               IN  IF raised = ""
                   THEN /\ authenticated(response)
                        /\ header' = [Authorization |-> access_token', called_at |-> clock]
                   ELSE /\ header' = [raised |-> raised, called_at |-> clock]
                        /\ UNCHANGED <<access_token, token_expires_at>>
    /\ pbipc' = "read"
    /\ UNCHANGED <<clock, secret_expires>>
    /\ UNCHANGED notPowerBI

\* the caller is done with what header gave
HeaderUsed ==
    /\ pbipc = "read"
    /\ header' = "None"
    /\ pbipc' = "ready"
    /\ UNCHANGED <<clock, secret_expires, access_token, token_expires_at>>
    /\ UNCHANGED notPowerBI

\* PowerBI(workspace_name) at one of the Starts, the secret good until
\* yesterday, today or tomorrow
InitPowerBI ==
    /\ clock \in Starts
    /\ secret_expires \in {-1, 0, 1}
    /\ access_token = "None"
    /\ token_expires_at = 0
    /\ header = "None"
    /\ pbipc = "init"
    /\ CompareIdle /\ S3Idle /\ ListIdle

NextPowerBI ==
    \/ PowerBIConstruct
    \/ Wait
    \/ Header
    \/ HeaderUsed

SpecPowerBI == InitPowerBI /\ [][NextPowerBI]_allvars

(***************************************************************************)
(* S3FileManagement: the claims on rename_folder and delete_folder.        *)
(***************************************************************************)
\* the places in the log of requests where a request of the kind op stands
RequestsOf(op) == {k \in 1..Len(requests) : requests[k].op = op}

Renaming == method = "rename_folder"

\* rename_folder copies first and deletes last.  Once a delete request
\* has been sent, every listed source file was copied before it, the new
\* folder was listed after the last copy and before it, the file count and
\* the rounded size of that listing are equal to the source's, and the answer
\* to the prompt was 'y' in either case; hence when a check fails or the
\* answer is not 'y', no delete request is sent.
C12_DeleteOnlyAfterChecks ==
    (Renaming /\ RequestsOf("delete_object") # {}) =>
        /\ \A d \in RequestsOf("delete_object") :
              /\ \A k \in 1..Len(self.files) :
                    \E c \in RequestsOf("copy") :
                       c < d /\ requests[c].Key = self.files[k].Key
              /\ \E l \in RequestsOf("list_objects_v2") :
                    /\ l < d /\ l > 1
                    /\ \A c \in RequestsOf("copy") : c < l
        /\ other # <<>>
        /\ other[1].file_count = self.file_count
        /\ Round2MB(other[1].folder_size_bytes) = Round2MB(self.folder_size_bytes)
        /\ lower(resp) = "y"

\* the call of rename_folder ended on a failed check, a failed copy or an
\* answer other than 'y'
RenameGaveUp ==
    /\ Renaming
    /\ \/ s3pc = "raised"
       \/ s3pc = "done" /\ lower(resp) # "y"

\* C12: rename_folder copies first and deletes last: a delete request is sent
\* only after every listed source file was copied, the listing of the new
\* folder gave the source's file count and rounded size, and the answer to the
\* prompt was 'y'; when a check or a copy fails or the answer is not 'y', no
\* delete request is sent and every listed source object is still there.
C12_CopyVerifyThenDelete ==
    /\ C12_DeleteOnlyAfterChecks
    /\ RenameGaveUp =>
          /\ RequestsOf("delete_object") = {}
          /\ \A k \in 1..Len(self.files) : store[self.bucket][self.files[k].Key]

C12_Witness ==
    /\ Renaming /\ s3pc = "done"
    /\ self.file_count = MaxFiles
    /\ self.delete_count = self.file_count
    /\ resp = "y"
    /\ \A k \in 1..Len(self.files) : ~store[self.bucket][self.files[k].Key]

\* C13: every delete request of delete_folder, and every listing of
\* rename_folder, names the bucket the instance was constructed with.
C13_RequestsNameOwnBucket ==
    s3pc # "idle" =>
        \A k \in 1..Len(requests) :
            requests[k].op \in {"delete_object", "list_objects_v2"} =>
                requests[k].Bucket = self.bucket

(***************************************************************************)
(* _get_all_s3_objects: the claim on pagination.                           *)
(***************************************************************************)
RECURSIVE Contents(_, _)
\* the objects of the first k of the pages ps, in page order
Contents(ps, k) ==
    IF k = 0 THEN <<>> ELSE Contents(ps, k - 1) \o get(ps[k], "Contents", <<>>)

\* C14: the first request carries no continuation token and each later one
\* the NextContinuationToken of the response just received; the objects
\* yielded are those of the pages received, each once and in page order; no
\* request follows a response whose IsTruncated is false, and the generator
\* ends only after such a response, having yielded every object of every page.
C14_EveryPageOnce ==
    listpc \in {"loop", "done"} =>
        /\ Len(sent) = Len(received)
        /\ \A k \in 1..Len(sent) :
              /\ received[k] = pages[k]
              /\ IF k = 1
                 THEN "ContinuationToken" \notin DOMAIN sent[k]
                 ELSE /\ "ContinuationToken" \in DOMAIN sent[k]
                      /\ sent[k]["ContinuationToken"] = received[k - 1]["NextContinuationToken"]
              /\ k < Len(sent) => received[k]["IsTruncated"]
        /\ yielded = Contents(pages, Len(received))
        /\ \A i, j \in 1..Len(yielded) : yielded[i] = yielded[j] => i = j
        /\ (received # <<>> /\ ~received[Len(received)]["IsTruncated"]) => ~ENABLED ListPage
        /\ listpc = "done" =>
              /\ Len(received) = Len(pages)
              /\ ~received[Len(received)]["IsTruncated"]
              /\ yielded = Contents(pages, Len(pages))

C14_Witness ==
    /\ listpc = "done"
    /\ Len(pages) = MaxPages
    /\ Len(sent) = MaxPages
    /\ "Contents" \notin DOMAIN pages[2]
    /\ Len(yielded) = 2 * PageSize

(***************************************************************************)
(* PowerBI.header: the claim on the token returned.                        *)
(***************************************************************************)
\* the last read of header returned a header
HeaderReturned == pbipc = "read" /\ "Authorization" \in DOMAIN header

\* C15: whenever header returns, the token it carries expires more than 30
\* seconds after the moment of the call.
C15_TokenOutlivesCall ==
    HeaderReturned => header.Authorization.expires_on > header.called_at + margin

====
